---- MODULE Spec2Model ----
(***************************************************************************)
(* Patent2SDG: the Streamlit handler "Classify and Display Graph" of       *)
(* app.py, the clustering of nodes/opportunity_node.py, the graph builder  *)
(* of graph_builder.py and the narrative generator of                      *)
(* utils/narrative_generator.py.                                           *)
(*                                                                         *)
(* Numbers.  An embedding is a 5-tuple of integers.  A cosine similarity   *)
(* is kept exact as the pair <<d, m>> that stands for d / sqrt(m), m > 0,  *)
(* and two similarities are compared by cross-multiplying the squares, so  *)
(* that no rounding enters a comparison.  A threshold given in hundredths  *)
(* (35 for 0.35) is the similarity <<t, 10000>>.                           *)
(***************************************************************************)
EXTENDS Integers, Sequences, FiniteSets, TLC

(***************************************************************************)
(* Bounds                                                                  *)
(***************************************************************************)
\* largest number of entries of the dictionary handed to the clustering
MaxDocs == 3

Range(s) == {s[i] : i \in DOMAIN s}

(***************************************************************************)
(* The embedding model (SentenceTransformer.encode) is an opaque           *)
(* deterministic function of the text.  Texts are named by small numbers;  *)
(* EmbPool is the table of their embeddings.                               *)
(*   1, 2, 3 : pairwise cosines (1,2) = 0.4, (2,3) = 0.4, (1,3) = 0.1      *)
(*   4, 5    : cosine exactly 0.75 (also in floating point: the norms      *)
(*             are 1 and 4)                                                *)
(***************************************************************************)
EmbPool ==
    <<  <<3, 1, 0, 0, 0>>,
        <<2, -2, 1, 1, 0>>,
        <<1, -2, 0, -2, 1>>,
        <<1, 0, 0, 0, 0>>,
        <<3, 2, 1, 1, 1>>  >>

Embeddings == Range(EmbPool)

\* size of an embedding vector
Dim == Len(EmbPool[1])

Dot(a, b) == a[1]*b[1] + a[2]*b[2] + a[3]*b[3] + a[4]*b[4] + a[5]*b[5]

Norm2(a) == Dot(a, a)

\* sklearn cosine_similarity([a], [b])[0][0]: both rows are normalised (a
\* zero row is left as it is) and multiplied, so a zero vector has
\* similarity 0 with everything.
cosine_similarity(a, b) ==
    IF Norm2(a) = 0 \/ Norm2(b) = 0 THEN <<0, 1>>
    ELSE <<Dot(a, b), Norm2(a) * Norm2(b)>>

\* x <= y for similarities x = <<d1, m1>>, y = <<d2, m2>>
SimLE(x, y) ==
    IF x[1] >= 0 /\ y[1] >= 0 THEN x[1]*x[1]*y[2] <= y[1]*y[1]*x[2]
    ELSE IF x[1] < 0 /\ y[1] < 0 THEN x[1]*x[1]*y[2] >= y[1]*y[1]*x[2]
    ELSE x[1] < 0

SimLT(x, y) == ~SimLE(y, x)

\* the float t/100 as a similarity
Thr(t) == <<t, 10000>>

(***************************************************************************)
(* nodes/opportunity_node.py                                               *)
(*                                                                         *)
(* A dictionary is a sequence of <<key, value>> pairs with distinct keys,  *)
(* in insertion order.                                                     *)
(***************************************************************************)
Keys(d) == {d[i][1] : i \in DOMAIN d}

Lookup(d, k) == (CHOOSE i \in DOMAIN d : d[i][1] = k)

Get(d, k) == d[Lookup(d, k)][2]

\* itertools.combinations(range(1, n+1), 2) when diag = 0: the pairs
\* <<i, j>>, i < j, in lexicographic order
RECURSIVE PairsFrom(_, _, _, _)
PairsFrom(n, i, j, diag) ==
    IF i > n - 1 + diag THEN <<>>
    ELSE IF j > n THEN PairsFrom(n, i + 1, i + 2 - diag, diag)
    ELSE <<  <<i, j>>  >> \o PairsFrom(n, i, j + 1, diag)

combinations_mut(n) == PairsFrom(n, 1, 1, 1)

combinations(n) == PairsFrom(n, 1, 2, 0)

\* sim >= threshold (line 22)
MeetsThreshold_mut(sim, threshold) == SimLT(Thr(threshold), sim)

MeetsThreshold(sim, threshold) == SimLE(Thr(threshold), sim)

\* any(group <= g for g in groups) (line 24)
Dominated_mut(group, groups) ==
    \E i \in DOMAIN groups : group \cap groups[i] # {}

Dominated(group, groups) ==
    \E i \in DOMAIN groups : group \subseteq groups[i]

\* the loop of lines 20-26 over the pairs ps[k..], groups accumulated so far
RECURSIVE CollectGroups(_, _, _, _, _)
CollectGroups(pe, threshold, ps, k, groups) ==
    IF k > Len(ps) THEN groups
    ELSE LET k1 == pe[ps[k][1]][1]
             v1 == pe[ps[k][1]][2]
             k2 == pe[ps[k][2]][1]
             v2 == pe[ps[k][2]][2]
             sim == cosine_similarity(v1, v2)
             group == {k1, k2}
         IN  IF MeetsThreshold(sim, threshold) /\ ~Dominated(group, groups)
             THEN CollectGroups(pe, threshold, ps, k + 1, Append(groups, group))
             ELSE CollectGroups(pe, threshold, ps, k + 1, groups)

\* element-wise sum of the embeddings of the keys of a group
RECURSIVE VecSum(_, _)
VecSum(pe, group) ==
    IF group = {} THEN [c \in 1..Dim |-> 0]
    ELSE LET p == CHOOSE q \in group : TRUE
             rest == VecSum(pe, group \ {p})
         IN  [c \in 1..Dim |-> Get(pe, p)[c] + rest[c]]

\* np.mean(vecs, axis=0), kept exact as the sum and the number of vectors
Centroid(pe, group) == [sum |-> VecSum(pe, group), n |-> Cardinality(group)]

\* the slip of enumerate(groups) without start=1
generate_shared_opportunity_nodes_mut(pe, threshold) ==
    LET groups == CollectGroups(pe, threshold, combinations(Len(pe)), 1, <<>>)
    IN  [nodes |-> [idx \in 1..Len(groups) |->
                       [id |-> idx - 1,
                        label |-> [text |-> "Shared Opportunity", n |-> idx - 1],
                        npatents |-> Cardinality(groups[idx]),
                        embedding |-> Centroid(pe, groups[idx])]],
         connections |-> [idx \in 1..Len(groups) |-> <<idx - 1, groups[idx]>>]]

\* OpportunityNode.generate_shared_opportunity_nodes: the node list and the
\* connections dictionary, OPPORTUNITY_<idx> written as the number idx
generate_shared_opportunity_nodes(pe, threshold) ==
    LET groups == CollectGroups(pe, threshold, combinations(Len(pe)), 1, <<>>)
    IN  [nodes |-> [idx \in 1..Len(groups) |->
                       [id |-> idx,
                        label |-> [text |-> "Shared Opportunity", n |-> idx],
                        npatents |-> Cardinality(groups[idx]),
                        embedding |-> Centroid(pe, groups[idx])]],
         connections |-> [idx \in 1..Len(groups) |-> <<idx, groups[idx]>>]]

(***************************************************************************)
(* utils/narrative_generator.py                                            *)
(*                                                                         *)
(* A text is the sequence of its blank-separated words (a sentence         *)
(* terminator is a word of its own); the string is the words joined by     *)
(* single blanks.  The word classes below are the ones the regular         *)
(* expressions and the vectorizer tell apart.                              *)
(***************************************************************************)
\* "(12)": removed by re.sub(r'\([0-9]{2}\)', '', text)
ParenCodes == {"(12)"}

\* "EP1234567": removed by the two patent-code patterns
RefCodes == {"EP1234567"}

\* the words of the publication pattern (matched ignoring case)
Boilerplate == {"patent", "application", "filed", "bulletin", "gazette",
                "number", "date", "publication"}

Terminators == {".", "!", "?"}

\* words of the pool that contain a digit
DigitWords == {"h2o", "(12)", "EP1234567"}

\* words of the pool that are on scikit-learn's English stop word list
EnglishStop == {"the", "and", "of", "for", "with", "this", "is", "an", "you",
                "themselves", "between", "yourselves"}

\* the stopwords of extract_keywords
stopwords == {"development", "technology", "system", "method", "device",
              "approach", "solution", "innovation", "data", "information",
              "application", "product", "field", "based", "process", "unit"}

\* str.title() on the keywords of the pool and on the fillers
Title(w) ==
    CASE w = "solar" -> "Solar"
      [] w = "water" -> "Water"
      [] w = "today" -> "Today"
      [] w = "sustainability" -> "Sustainability"
      [] w = "impact" -> "Impact"
      [] w = "access" -> "Access"
      [] OTHER -> w

\* the publication pattern r'\b(Patent|...)\b.*?(\.|\n)': from a boilerplate
\* word through the next "."; without a later "." nothing is removed
RECURSIVE StripBoilerplate(_, _)
StripBoilerplate(ws, i) ==
    IF i > Len(ws) THEN <<>>
    ELSE IF ws[i] \in Boilerplate /\ (\E j \in i+1..Len(ws) : ws[j] = ".")
         THEN LET j == CHOOSE k \in i+1..Len(ws) :
                           ws[k] = "." /\ \A m \in i+1..k-1 : ws[m] # "."
              IN  StripBoilerplate(ws, j + 1)
         ELSE <<ws[i]>> \o StripBoilerplate(ws, i + 1)

IsCode(w) == w \in ParenCodes \cup RefCodes

clean_text(text) ==
    StripBoilerplate(SelectSeq(text, LAMBDA w : ~IsCode(w)), 1)

\* " ".join(cleaned), each element a word sequence; an empty string among
\* several leaves no word behind
RECURSIVE JoinTexts(_)
JoinTexts(ts) == IF ts = <<>> THEN <<>> ELSE Head(ts) \o JoinTexts(Tail(ts))

\* len() of the string of a word sequence
RECURSIVE CharLen(_)
CharLen(ws) ==
    IF ws = <<>> THEN 0
    ELSE IF Len(ws) = 1 THEN Len(ws[1])
    ELSE Len(ws[1]) + 1 + CharLen(Tail(ws))

\* re.split(r'(?<=[.!?])\s+', text): cut after every terminator that is
\* followed by more text
RECURSIVE SplitSentences(_, _)
SplitSentences(ws, cur) ==
    IF ws = <<>> THEN <<cur>>
    ELSE IF Head(ws) \in Terminators /\ Tail(ws) # <<>>
         THEN <<Append(cur, Head(ws))>> \o SplitSentences(Tail(ws), <<>>)
         ELSE SplitSentences(Tail(ws), Append(cur, Head(ws)))

GoodSentence(s) == CharLen(s) > 40 /\ \A i \in DOMAIN s : s[i] \notin DigitWords

\* the texts of the pool are shorter than 300 characters, so text[:300] is
\* the text
summarize_text(text, max_sentences) ==
    LET good == SelectSeq(SplitSentences(text, <<>>), GoodSentence)
    IN  IF good # <<>>
        THEN JoinTexts(SubSeq(good, 1, IF Len(good) < max_sentences
                                       THEN Len(good) ELSE max_sentences))
        ELSE text

\* TfidfVectorizer(stop_words="english"): the tokens are the words of two or
\* more word characters that are not English stop words
IsToken(w) == Len(w) >= 2 /\ w \notin Terminators /\ w \notin EnglishStop

Vocabulary(texts) ==
    UNION {{texts[i][j] : j \in {k \in DOMAIN texts[i] : IsToken(texts[i][k])}}
           : i \in DOMAIN texts}

\* fit_transform raises ValueError("empty vocabulary") when no document
\* has a token, the empty list included
EmptyVocabulary(texts) == Vocabulary(texts) = {}

IsKeyword(kw) ==
    kw \notin stopwords /\ Len(kw) > 3 /\ kw \notin DigitWords

\* the injective sequences over S of length min(n, |S|)
Arrangements(S, n) ==
    LET k == IF Cardinality(S) < n THEN Cardinality(S) ELSE n
    IN  {s \in [1..k -> S] : \A i, j \in 1..k : i # j => s[i] # s[j]}

\* extract_keywords on texts with a non-empty vocabulary.  The TF-IDF scores
\* are irrational numbers; the ranking they induce is left open, so every
\* order of the surviving keywords is a possible result.
extract_keywords(texts, max_keywords) ==
    Arrangements({w \in Vocabulary(texts) : IsKeyword(w)}, max_keywords)

\* compose_description: template 0 is the generic sentence, 1..4 the four
\* templates random.choice picks from
compose_description(summary, keywords) ==
    IF keywords = <<>>
    THEN {[template |-> 0, kw |-> <<>>, summary |-> summary]}
    ELSE LET kw1 == keywords[1]
             kw2 == IF Len(keywords) > 1 THEN keywords[2] ELSE "technology"
             kw3 == IF Len(keywords) > 2 THEN keywords[3] ELSE "impact"
         IN  {[template |-> t, kw |-> <<kw1, kw2, kw3>>, summary |-> summary]
              : t \in 1..4}

Raised == [raised |-> TRUE, name |-> <<>>, keywords |-> <<>>,
           description |-> [template |-> 0, kw |-> <<>>, summary |-> <<>>]]

\* the possible outcomes of describe_opportunity(patent_texts)
describe_opportunity(patent_texts) ==
    LET cleaned == [i \in DOMAIN patent_texts |-> clean_text(patent_texts[i])]
        summary == summarize_text(JoinTexts(cleaned), 3)
    IN  IF EmptyVocabulary(cleaned) THEN {Raised}
        ELSE UNION {
               {[raised |-> FALSE,
                 name |-> IF keywords # <<>>
                          THEN [i \in 1..(IF Len(keywords) < 2 THEN Len(keywords) ELSE 2)
                                  |-> Title(keywords[i])]
                          ELSE <<"Sustainable Opportunity">>,
                 keywords |-> keywords,
                 description |-> d] : d \in compose_description(summary, keywords)}
               : keywords \in extract_keywords(cleaned, 5)}

\* the possible outcomes of describe_startup(patent_texts)
describe_startup(patent_texts) ==
    LET cleaned == [i \in DOMAIN patent_texts |-> clean_text(patent_texts[i])]
        summary == summarize_text(JoinTexts(cleaned), 3)
    IN  IF EmptyVocabulary(cleaned) THEN {Raised}
        ELSE UNION {
               LET keywords == IF Len(kws) < 3
                               THEN kws \o <<"sustainability", "impact", "access">>
                               ELSE kws
               IN  {[raised |-> FALSE,
                     name |-> <<Title(keywords[1]), "Tech">>,
                     keywords |-> keywords,
                     description |-> d] : d \in compose_description(summary, keywords)}
               : kws \in extract_keywords(cleaned, 5)}

(***************************************************************************)
(* The texts and files of the model                                        *)
(***************************************************************************)
\* the texts: their words and what model.encode returns for them
\*   1 one keyword ("solar"), a parenthesised code, a boilerplate span
\*   2 English stop words only
\*   3 no word of two or more characters
\*   4 one keyword ("water"), one sentence of more than 40 characters
\*   5 under 20 characters          6 over 20 characters, under 5 blanks
\* Cosines: (1,2) = 0.63, (1,3) = 0.32, (1,4) = 0.75, (2,3) = 0.4,
\* (2,4) = 0.32, (3,4) = -0.16.
TextPool ==
    <<  [words |-> <<"(12)", "patent", "filed", "today", ".", "the", "solar",
                     "system", "is", "an", "h2o", "unit", "for", "you", ".">>,
         emb |-> EmbPool[4]],
        [words |-> <<"the", "and", "of", "for", "with", "this">>,
         emb |-> EmbPool[2]],
        [words |-> <<"x", "y", ".">>,
         emb |-> EmbPool[3]],
        [words |-> <<"water", "method", "for", "themselves", "and", "between",
                     "yourselves", ".">>,
         emb |-> EmbPool[5]],
        [words |-> <<"solar", "water">>,
         emb |-> EmbPool[1]],
        [words |-> <<"solar", "water", "themselves", "yourselves">>,
         emb |-> EmbPool[1]]  >>

\* model.encode(text)
Encode(t) == TextPool[t].emb

Words(t) == TextPool[t].words

\* what the user can type: nothing (0), or one of three texts
UserTexts == {0, 1, 5, 6}

\* the files the user can upload, named by their index.  docs is what the
\* extractors of utils/input_manager.py return for the file: the pairs
\* <<file name, text>>; a file without extractable text has none.  The
\* archive holds one entry name twice and the same text under two names.
FilePool ==
    <<  [ext |-> "pdf", docs |-> << <<1, 1>> >>],
        [ext |-> "pdf", docs |-> << <<2, 2>> >>],
        [ext |-> "pdf", docs |-> << <<3, 3>> >>],
        [ext |-> "pdf", docs |-> << <<4, 4>> >>],
        [ext |-> "pdf", docs |-> << >>],
        [ext |-> "xml", docs |-> << <<6, 4>> >>],
        [ext |-> "zip", docs |-> << <<8, 3>>, <<9, 1>>, <<8, 2>>, <<10, 1>> >>]  >>

Files == DOMAIN FilePool

\* the key of the typed text in text_data, "User_Text_Input"
UserTextInput == 0

\* the embeddings of the SDG descriptions, model.encode(sdg.description).
\* Text 1 has the same similarity to the first two entries; no other text
\* of the pool has two equal similarities.
SdgPool ==
    <<  <<1, 0, 0, 1, 0>>,
        <<1, 0, 0, -1, 0>>,
        <<3, 1, 0, 0, 0>>,
        <<4, 1, 0, 0, 0>>,
        <<5, 1, 0, 0, 0>>,
        <<6, 1, 0, 0, 0>>,
        <<7, 1, 0, 0, 0>>,
        <<8, 1, 0, 0, 0>>  >>

(***************************************************************************)
(* Bounds of the application model                                         *)
(***************************************************************************)
\* largest number of files in one upload
MaxFiles == 3

\* largest length of the taxonomy list sdgs
MaxSdgs == 6

\* largest batch of a run that is followed by another run, and of that
\* other run
MaxRerunDocs == 1

(***************************************************************************)
(* Program constants                                                       *)
(***************************************************************************)
\* sims.argsort()[::-1][:5]
TopK == 5

\* if sim > 0.75
SimilarityThreshold == 75

\* generate_shared_opportunity_nodes(patent_embeddings, threshold=0.35)
OpportunityThreshold == 35

\* len(used_text) < 20
MinTextLen == 20

\* used_text.count(" ") < 5
MinSpaces == 5

(***************************************************************************)
(* networkx.Graph: nodes is a function from node ids to their attributes,  *)
(* edges a function from the two-element sets of end points to weights.    *)
(* A node id is <<prefix, n>>: <<"SDG", i>>, <<"PATENT", file name>>,      *)
(* <<"OPPORTUNITY", i>>, <<"STARTUP_ID", 0>>.  The attribute description   *)
(* of the SDG nodes is not kept.  The field implicit records the ids that  *)
(* calls of add_edge had to create, so that a later add_node of the same   *)
(* id does not hide it.                                                    *)
(***************************************************************************)
EmptyGraph == [nodes |-> <<>>, edges |-> <<>>, implicit |-> {}]

NoLabel == [text |-> "", n |-> 0]

FcnSet(f, k, v) == [x \in DOMAIN f \cup {k} |-> IF x = k THEN v ELSE f[x]]

\* G.add_node(id, label=label, type=type): a present node keeps its edges
\* and has the attributes updated
add_node(G, id, type, label) ==
    [G EXCEPT !.nodes = FcnSet(G.nodes, id, [type |-> type, label |-> label])]

\* G.add_edge(u, v, weight=w): end points that are missing are created
\* without attributes; an edge that is present has the weight overwritten
add_edge(G, u, v, w) ==
    LET missing == {u, v} \ DOMAIN G.nodes
    IN  [nodes |-> [x \in DOMAIN G.nodes \cup missing |->
                      IF x \in missing THEN [type |-> "", label |-> NoLabel]
                      ELSE G.nodes[x]],
         edges |-> FcnSet(G.edges, {u, v}, w),
         implicit |-> G.implicit \cup missing]

NodesOfType(G, type) == {x \in DOMAIN G.nodes : G.nodes[x].type = type}

HasEdge(G, u, v) == {u, v} \in DOMAIN G.edges

\* the neighbours of u
Adj(G, u) == {v \in DOMAIN G.nodes : v # u /\ HasEdge(G, u, v)}

SdgId(i) == <<"SDG", i>>

PatentId(f) == <<"PATENT", f>>

OpportunityId(i) == <<"OPPORTUNITY", i>>

StartupId == <<"STARTUP_ID", 0>>

\* the weight 1.0 as a similarity
One == <<1, 1>>

(***************************************************************************)
(* graph_builder.py                                                        *)
(***************************************************************************)
\* build_sdg_graph(sdgs) for a taxonomy list of n entries: one node per
\* entry with its label, no type attribute
RECURSIVE build_sdg_graph_from(_, _, _)
build_sdg_graph_from(G, i, n) ==
    IF i > n THEN G
    ELSE build_sdg_graph_from(
            add_node(G, SdgId(i), "", [text |-> "sdg.name", n |-> i]), i + 1, n)

\* the slip of returning the graph before the loop over sdgs
build_sdg_graph_mut(n) == EmptyGraph

build_sdg_graph(n) == build_sdg_graph_from(EmptyGraph, 1, n)

\* app.py lines 179-180: full_G.nodes[sdg.id]['type'] = 'sdg'
SetSdgTypes(G, n) ==
    [G EXCEPT !.nodes = [x \in DOMAIN G.nodes |->
        IF x \in {SdgId(i) : i \in 1..n}
        THEN [G.nodes[x] EXCEPT !.type = "sdg"] ELSE G.nodes[x]]]

(***************************************************************************)
(* app.py: helpers of the handler "Classify and Display Graph"             *)
(***************************************************************************)
\* d[k] = v on a dictionary: a present key keeps its place
DictSet(d, k, v) ==
    IF k \in Keys(d) THEN [d EXCEPT ![Lookup(d, k)] = <<k, v>>]
    ELSE Append(d, <<k, v>>)

\* d.update(docs), the pairs of docs taken in order
RECURSIVE DictUpdate(_, _)
DictUpdate(d, docs) ==
    IF docs = <<>> THEN d
    ELSE DictUpdate(DictSet(d, Head(docs)[1], Head(docs)[2]), Tail(docs))

is_pdf(f) == FilePool[f].ext = "pdf"

is_zip(f) == FilePool[f].ext = "zip"

is_xml(f) == FilePool[f].ext = "xml"

\* extract_texts_from_pdf_batch, and the loop of lines 162-164 over the XML
\* files: the texts of the files in upload order
RECURSIVE extract_texts(_)
extract_texts(fs) ==
    IF fs = <<>> THEN <<>>
    ELSE DictUpdate(extract_texts(SubSeq(fs, 1, Len(fs) - 1)),
                    FilePool[fs[Len(fs)]].docs)

\* extract_texts_from_zip_any_structure on the first ZIP file
extract_texts_from_zip_any_structure(z) == DictUpdate(<<>>, FilePool[z].docs)

\* set(name for name in all_names if all_names.count(name) > 1)
duplicates(all_names) ==
    {all_names[i] : i \in {j \in DOMAIN all_names :
                             \E k \in DOMAIN all_names : k # j /\ all_names[k] = all_names[j]}}

\* bool(x) as 0 or 1
B2N(b) == IF b THEN 1 ELSE 0

\* len(used_text) < 20 or used_text.count(" ") < 5
TooShort(t) == CharLen(Words(t)) < MinTextLen \/ Len(Words(t)) - 1 < MinSpaces

\* not text_data (line 171)
NoValidText_mut(td) == FALSE

NoValidText(td) == td = <<>>

\* lines 139-173: the message of the st.error / st.warning the request stops
\* with ("" when it passes), and the extracted text_data
Validate(user_text, uploaded_files) ==
    LET pdfs == SelectSeq(uploaded_files, is_pdf)
        zips == SelectSeq(uploaded_files, is_zip)
        xmls == SelectSeq(uploaded_files, is_xml)
        all_names == pdfs \o zips \o xmls
        td == IF zips # <<>> THEN extract_texts_from_zip_any_structure(zips[1])
              ELSE IF pdfs # <<>> THEN extract_texts(pdfs)
              ELSE IF xmls # <<>> THEN extract_texts(xmls)
              ELSE << <<UserTextInput, user_text>> >>
    IN  IF duplicates(all_names) # {}
        THEN [message |-> "duplicates", text_data |-> <<>>]
        ELSE IF B2N(user_text # 0) + B2N(pdfs # <<>>) + B2N(zips # <<>>)
                  + B2N(xmls # <<>>) # 1
        THEN [message |-> "input_type", text_data |-> <<>>]
        ELSE IF zips = <<>> /\ pdfs = <<>> /\ xmls = <<>> /\ TooShort(user_text)
        THEN [message |-> "too_short", text_data |-> <<>>]
        ELSE IF NoValidText(td)
        THEN [message |-> "no_text", text_data |-> <<>>]
        ELSE [message |-> "", text_data |-> td]

\* cosine_similarity([emb], sdg_embeddings) raises ValueError when the list
\* of SDG embeddings is empty (scikit-learn's check of its second argument)
SimilarityRaises_mut(n) == FALSE

SimilarityRaises(n) == n = 0

\* argmax taken k times without removing the index
top_indices_dup(sims, k) ==
    {[j \in 1..(IF Len(sims) < k THEN Len(sims) ELSE k) |-> i]
       : i \in {m \in DOMAIN sims : \A q \in DOMAIN sims : SimLE(sims[q], sims[m])}}

\* cosine_similarity([emb], sdg_embeddings)[0] for a taxonomy of n entries
SdgSims(emb, n) == [i \in 1..n |-> cosine_similarity(emb, SdgPool[i])]

\* the indices of rest with the largest similarity
Largest(sims, rest) == {j \in rest : \A m \in rest : SimLE(sims[m], sims[j])}

Smallest(sims, rest) == {j \in rest : \A m \in rest : SimLE(sims[j], sims[m])}

\* sims.argsort()[::-1][:k].  argsort's default sort is not stable, so among
\* equal similarities every order is a possible result: the possible index
\* sequences are built by taking, k times, any largest of the indices left.
RECURSIVE TopFrom(_, _, _)
TopFrom(sims, rest, k) ==
    IF k = 0 \/ rest = {} THEN {<<>>}
    ELSE UNION {{<<i>> \o s : s \in TopFrom(sims, rest \ {i}, k - 1)}
                : i \in Largest(sims, rest)}

\* the slip of leaving out [::-1]
RECURSIVE BottomFrom(_, _, _)
BottomFrom(sims, rest, k) ==
    IF k = 0 \/ rest = {} THEN {<<>>}
    ELSE UNION {{<<i>> \o s : s \in BottomFrom(sims, rest \ {i}, k - 1)}
                : i \in Smallest(sims, rest)}

top_indices_mut(sims, k) == BottomFrom(sims, DOMAIN sims, k)

top_indices(sims, k) == TopFrom(sims, DOMAIN sims, k)

\* the slip of adding the edge of line 200 without the node of line 199
RECURSIVE AttachTop_mut(_, _, _, _, _)
AttachTop_mut(G, filename, sims, top, j) ==
    IF j > Len(top) THEN add_node(G, PatentId(filename), "patent",
                                  [text |-> "filename", n |-> filename])
    ELSE AttachTop_mut(
            add_edge(G, PatentId(filename), SdgId(top[j]), sims[top[j]]),
            filename, sims, top, j + 1)

\* lines 191-200 for one document: the rows of the results table and the
\* graph after the loop over top
RECURSIVE AttachTop(_, _, _, _, _)
AttachTop(G, filename, sims, top, j) ==
    IF j > Len(top) THEN G
    ELSE AttachTop(
            add_edge(add_node(G, PatentId(filename), "patent",
                              [text |-> "filename", n |-> filename]),
                     PatentId(filename), SdgId(top[j]), sims[top[j]]),
            filename, sims, top, j + 1)

\* the rows; the column Affinity (the rounded similarity) is not kept
TableRows(filename, top) ==
    [j \in DOMAIN top |-> [file |-> filename, sdg |-> top[j]]]

\* sim > 0.75 (line 204)
Similar(sim) == SimLT(Thr(SimilarityThreshold), sim)

\* lines 202-205 over the pairs ps[k..]
RECURSIVE LinkPairs(_, _, _, _)
LinkPairs(G, pe, ps, k) ==
    IF k > Len(ps) THEN G
    ELSE LET f1 == pe[ps[k][1]][1]
             e1 == pe[ps[k][1]][2]
             f2 == pe[ps[k][2]][1]
             e2 == pe[ps[k][2]][2]
             sim == cosine_similarity(e1, e2)
         IN  LinkPairs(IF Similar(sim)
                       THEN add_edge(G, PatentId(f1), PatentId(f2), sim)
                       ELSE G,
                       pe, ps, k + 1)

\* the slip of a loop that ends one member early
RECURSIVE LinkMembers_mut(_, _, _)
LinkMembers_mut(G, pids, id) ==
    IF Cardinality(pids) <= 1 THEN G
    ELSE LET pid == CHOOSE q \in pids : TRUE
         IN  LinkMembers_mut(add_edge(G, PatentId(pid), id, One), pids \ {pid}, id)

\* the edges of line 217 / 236: every patent of pids to node id, weight 1.0
RECURSIVE LinkMembers(_, _, _)
LinkMembers(G, pids, id) ==
    IF pids = {} THEN G
    ELSE LET pid == CHOOSE q \in pids : TRUE
         IN  LinkMembers(add_edge(G, PatentId(pid), id, One), pids \ {pid}, id)

\* max(opp_links, key=lambda k: len(opp_links[k])): the first key, in
\* insertion order, whose group is of the largest size
MaxByLen_mut(links) ==
    links[CHOOSE i \in DOMAIN links :
            /\ \A j \in DOMAIN links : Cardinality(links[j][2]) <= Cardinality(links[i][2])
            /\ \A j \in DOMAIN links :
                 Cardinality(links[j][2]) = Cardinality(links[i][2]) => j <= i][1]

MaxByLen(links) ==
    links[CHOOSE i \in DOMAIN links :
            /\ \A j \in DOMAIN links : Cardinality(links[j][2]) <= Cardinality(links[i][2])
            /\ \A j \in 1..i-1 : Cardinality(links[j][2]) < Cardinality(links[i][2])][1]

\* the slip of taking all documents whether or not there are clusters
PatentsForStartup_mut(links, pe) == Keys(pe)

\* line 219: the documents of the startup, as a set
PatentsForStartup(links, pe) ==
    IF links # <<>> THEN Get(links, MaxByLen(links)) ELSE Keys(pe)

\* list(s) of a set of strings: any order
Orders(S) == Arrangements(S, Cardinality(S))

\* [text_data[pid] for pid in order], each text as its word sequence
TextsOf(td, order) == [i \in DOMAIN order |-> Words(Get(td, order[i]))]

\* nodes/startup_node.py
StartupNode(node_id, name, business_model, pain_point, impact) ==
    [id |-> node_id, name |-> name, business_model |-> business_model,
     pain_point |-> pain_point, impact |-> impact]

(***************************************************************************)
(* State                                                                   *)
(***************************************************************************)
VARIABLES
    sdgs,                 \* the length of the taxonomy list sdgs
    \* st.session_state; None and an absent key are <<>>, a value v is <<v>>
    ready, text_data, graph, results_df, opp_links, startup_node,
    startup_description,
    \* the script run of the handler
    pc,                   \* "idle", or the part of the handler that is next
    outcome,              \* how the last request ended
    message,              \* the st.error / st.warning it stopped with
    full_G, patent_embeddings, batch_table_data, opp_nodes,
    patents_for_startup,
    di,                   \* position of the loop of line 185 in text_data
    oi,                   \* position of the loop of line 210 in opp_nodes
    \* a call of generate_shared_opportunity_nodes on its own
    cl_pe, cl_threshold, cl_done, cl_out,
    \* a call of describe_opportunity / describe_startup on its own
    nar_fn, nar_texts, nar_done, nar_out

session == <<ready, text_data, graph, results_df, opp_links, startup_node,
             startup_description>>

locals == <<full_G, patent_embeddings, batch_table_data, opp_nodes,
            patents_for_startup, di, oi>>

app == <<sdgs, session, pc, outcome, message, locals>>

cl == <<cl_pe, cl_threshold, cl_done, cl_out>>

nar == <<nar_fn, nar_texts, nar_done, nar_out>>

vars == <<app, cl, nar>>

NoResult == [nodes |-> <<>>, connections |-> <<>>]

\* lines 35-43, and the locals of a script run that has not started
InitApp ==
    /\ ready = FALSE
    /\ text_data = <<>>
    /\ graph = <<>>
    /\ results_df = <<>>
    /\ opp_links = <<>>
    /\ startup_node = <<>>
    /\ startup_description = <<>>
    /\ pc = "idle"
    /\ outcome = "none"
    /\ message = ""
    /\ full_G = EmptyGraph
    /\ patent_embeddings = <<>>
    /\ batch_table_data = <<>>
    /\ opp_nodes = <<>>
    /\ patents_for_startup = <<>>
    /\ di = 1
    /\ oi = 1

IdleCl ==
    /\ cl_pe = <<>>
    /\ cl_threshold = OpportunityThreshold
    /\ cl_done = FALSE
    /\ cl_out = NoResult

IdleNar ==
    /\ nar_fn = "describe_opportunity"
    /\ nar_texts = <<>>
    /\ nar_done = FALSE
    /\ nar_out = Raised

Init ==
    /\ sdgs \in 0..MaxSdgs
    /\ InitApp
    /\ IdleCl
    /\ IdleNar

\* the locals of the script run end with it
DropLocals ==
    /\ full_G' = EmptyGraph
    /\ patent_embeddings' = <<>>
    /\ batch_table_data' = <<>>
    /\ opp_nodes' = <<>>
    /\ patents_for_startup' = <<>>
    /\ di' = 1
    /\ oi' = 1

\* an exception leaves the handler: the script run ends there
Raise ==
    /\ pc' = "idle"
    /\ outcome' = "raised"
    /\ message' = ""
    /\ DropLocals

Uploads == UNION {[1..n -> Files] : n \in 0..MaxFiles}

\* what lines 139-173 make of the requests the user can send: of every
\* typed text together with every upload
Requests == {Validate(user_text, uploaded_files) :
               user_text \in UserTexts, uploaded_files \in Uploads}

(***************************************************************************)
(* Actions                                                                 *)
(***************************************************************************)
\* the session holds what lines 35-43 put there
Fresh ==
    /\ ready = FALSE
    /\ text_data = <<>>
    /\ graph = <<>>
    /\ results_df = <<>>
    /\ opp_links = <<>>
    /\ startup_node = <<>>
    /\ startup_description = <<>>

\* the session is the one a finished run has just stored
Rerunnable == ready /\ outcome = "done" /\ Len(text_data) <= MaxRerunDocs

\* lines 138-183: the button is pressed with a typed text and an upload.
\* A request that passes validation is followed from a fresh session (the
\* first one, or the first one after Reset Batch) and, for batches of at
\* most MaxRerunDocs documents, from the session a finished run has just
\* stored; the handler reads nothing of the session but the two inputs.
ClassifyClick ==
    /\ pc = "idle"
    /\ \E v \in Requests :
         IF v.message # ""
         THEN /\ outcome' = "stopped"
              /\ message' = v.message
              /\ UNCHANGED <<session, pc, locals>>
         ELSE /\ Fresh \/ (Rerunnable /\ Len(v.text_data) <= MaxRerunDocs)
              /\ text_data' = v.text_data
              /\ full_G' = SetSdgTypes(build_sdg_graph(sdgs), sdgs)
              /\ patent_embeddings' = <<>>
              /\ batch_table_data' = <<>>
              /\ di' = 1
              /\ pc' = "docs"
              /\ outcome' = "running"
              /\ message' = ""
              /\ UNCHANGED <<ready, graph, results_df, opp_links,
                             startup_node, startup_description,
                             opp_nodes, patents_for_startup, oi>>
    /\ UNCHANGED <<sdgs, cl, nar>>

\* lines 185-200, one document.  cosine_similarity raises ValueError on an
\* empty list of SDG embeddings.
AttachDocument ==
    /\ pc = "docs"
    /\ di <= Len(text_data)
    /\ LET filename == text_data[di][1]
           emb == Encode(text_data[di][2])
           sims == SdgSims(emb, sdgs)
       IN  IF SimilarityRaises(sdgs)
           THEN Raise /\ UNCHANGED session
           ELSE \E top \in top_indices(sims, TopK) :
                  /\ patent_embeddings' = DictSet(patent_embeddings, filename, emb)
                  /\ batch_table_data' =
                        DictSet(batch_table_data, filename, TableRows(filename, top))
                  /\ full_G' = AttachTop(full_G, filename, sims, top, 1)
                  /\ di' = di + 1
                  /\ UNCHANGED <<session, pc, outcome, message, opp_nodes,
                                 patents_for_startup, oi>>
    /\ UNCHANGED <<sdgs, cl, nar>>

\* lines 202-205
LinkDocuments ==
    /\ pc = "docs"
    /\ di > Len(text_data)
    /\ full_G' = LinkPairs(full_G, patent_embeddings,
                           combinations(Len(patent_embeddings)), 1)
    /\ pc' = "cluster"
    /\ UNCHANGED <<sdgs, session, outcome, message, patent_embeddings,
                   batch_table_data, opp_nodes, patents_for_startup, di, oi,
                   cl, nar>>

\* lines 207-208
ClusterDocuments ==
    /\ pc = "cluster"
    /\ LET r == generate_shared_opportunity_nodes(patent_embeddings,
                                                  OpportunityThreshold)
       IN  /\ opp_nodes' = r.nodes
           /\ opp_links' = r.connections
    /\ oi' = 1
    /\ pc' = "opp"
    /\ UNCHANGED <<sdgs, ready, text_data, graph, results_df, startup_node,
                   startup_description, outcome, message, full_G,
                   patent_embeddings, batch_table_data, patents_for_startup,
                   di, cl, nar>>

\* lines 210-217, one opportunity node; raw is not used
AddOpportunityNode ==
    /\ pc = "opp"
    /\ oi <= Len(opp_nodes)
    /\ LET node == opp_nodes[oi]
       IN  \E order \in Orders(Get(opp_links, node.id)) :
           \E raw \in describe_opportunity(TextsOf(text_data, order)) :
             IF raw.raised
             THEN Raise /\ UNCHANGED session
             ELSE /\ opp_nodes' = [opp_nodes EXCEPT ![oi] =
                        [node EXCEPT !.label = [text |-> "Opportunity", n |-> oi],
                                     !.id = oi]]
                  /\ full_G' = LinkMembers(
                        add_node(full_G, OpportunityId(oi), "opportunity",
                                 [text |-> "Opportunity", n |-> oi]),
                        Get(opp_links, oi), OpportunityId(oi))
                  /\ oi' = oi + 1
                  /\ UNCHANGED <<session, pc, outcome, message,
                                 patent_embeddings, batch_table_data,
                                 patents_for_startup, di>>
    /\ UNCHANGED <<sdgs, cl, nar>>

\* lines 219-236
CreateStartup ==
    /\ pc = "opp"
    /\ oi > Len(opp_nodes)
    /\ \E order \in Orders(PatentsForStartup(opp_links, patent_embeddings)) :
           \E startup_raw \in describe_startup(TextsOf(text_data, order)) :
             IF startup_raw.raised
             THEN Raise /\ UNCHANGED session
             ELSE LET node == StartupNode(StartupId, startup_raw.name,
                                          "-", "-", "-")
                  IN  /\ patents_for_startup' = order
                      /\ startup_description' = <<startup_raw>>
                      /\ startup_node' = <<node>>
                      /\ full_G' = LinkMembers(
                            add_node(full_G, node.id, "startup",
                                     [text |-> node.name[1], n |-> 0]),
                            Range(order), node.id)
                      /\ pc' = "finish"
                      /\ UNCHANGED <<ready, text_data, graph, results_df,
                                     opp_links, outcome, message,
                                     patent_embeddings, batch_table_data,
                                     opp_nodes, di, oi>>
    /\ UNCHANGED <<sdgs, cl, nar>>

\* pd.concat of the row lists, in the order of batch_table_data
RECURSIVE Concat(_)
Concat(d) == IF d = <<>> THEN <<>> ELSE Head(d)[2] \o Concat(Tail(d))

\* lines 238-239; pd.concat raises ValueError on an empty list
Finish ==
    /\ pc = "finish"
    /\ IF batch_table_data = <<>>
       THEN Raise /\ UNCHANGED session
       ELSE /\ results_df' = <<Concat(batch_table_data)>>
            /\ graph' = <<full_G>>
            /\ ready' = TRUE
            /\ pc' = "idle"
            /\ outcome' = "done"
            /\ message' = ""
            /\ DropLocals
            /\ UNCHANGED <<text_data, opp_links, startup_node,
                           startup_description>>
    /\ UNCHANGED <<sdgs, cl, nar>>

\* the slip of a list keys_to_clear without "ready": the rerun then finds
\* the key and skips lines 36-43
ResetBatch_mut ==
    /\ pc = "idle"
    /\ text_data' = <<>>
    /\ graph' = <<>>
    /\ results_df' = <<>>
    /\ opp_links' = <<>>
    /\ startup_node' = <<>>
    /\ startup_description' = <<>>
    /\ outcome' = "reset"
    /\ message' = ""
    /\ UNCHANGED <<sdgs, ready, pc, locals, cl, nar>>

\* lines 61-69, then the rerun through lines 35-43
ResetBatch ==
    /\ pc = "idle"
    /\ ready' = FALSE
    /\ text_data' = <<>>
    /\ graph' = <<>>
    /\ results_df' = <<>>
    /\ opp_links' = <<>>
    /\ startup_node' = <<>>
    /\ startup_description' = <<>>
    /\ outcome' = "reset"
    /\ message' = ""
    /\ UNCHANGED <<sdgs, pc, locals, cl, nar>>

Next ==
    \/ ClassifyClick
    \/ AttachDocument
    \/ LinkDocuments
    \/ ClusterDocuments
    \/ AddOpportunityNode
    \/ CreateStartup
    \/ Finish
    \/ ResetBatch

Spec == Init /\ [][Next]_vars

(***************************************************************************)
(* generate_shared_opportunity_nodes called on its own: the dictionary of  *)
(* embeddings and the threshold are drawn from bounded sets.               *)
(***************************************************************************)
DocKeys == 1..MaxDocs

\* 0.35 is the threshold app.py passes, 0.6 the default of the signature
Thresholds == {35, 40, 60}

\* the dictionaries of at most MaxDocs entries
Dicts ==
    UNION {{d \in [1..n -> DocKeys \X Embeddings] :
              \A i, j \in 1..n : i # j => d[i][1] # d[j][1]} : n \in 0..MaxDocs}

InitCluster ==
    /\ sdgs = 0
    /\ InitApp
    /\ IdleNar
    /\ cl_pe \in Dicts
    /\ cl_threshold \in Thresholds
    /\ cl_done = FALSE
    /\ cl_out = NoResult

CallGenerate ==
    /\ ~cl_done
    /\ cl_out' = generate_shared_opportunity_nodes(cl_pe, cl_threshold)
    /\ cl_done' = TRUE
    /\ UNCHANGED <<app, nar, cl_pe, cl_threshold>>

NextCluster == CallGenerate

SpecCluster == InitCluster /\ [][NextCluster]_vars

(***************************************************************************)
(* describe_opportunity / describe_startup called on their own             *)
(***************************************************************************)
\* largest number of texts in the list
MaxTexts == 2

TextLists == UNION {[1..n -> {Words(t) : t \in DOMAIN TextPool}] : n \in 0..MaxTexts}

InitNarrative ==
    /\ sdgs = 0
    /\ InitApp
    /\ IdleCl
    /\ nar_fn \in {"describe_opportunity", "describe_startup"}
    /\ nar_texts \in TextLists
    /\ nar_done = FALSE
    /\ nar_out = Raised

CallDescribe ==
    /\ ~nar_done
    /\ nar_out' \in IF nar_fn = "describe_opportunity"
                    THEN describe_opportunity(nar_texts)
                    ELSE describe_startup(nar_texts)
    /\ nar_done' = TRUE
    /\ UNCHANGED <<app, cl, nar_fn, nar_texts>>

NextNarrative == CallDescribe

SpecNarrative == InitNarrative /\ [][NextNarrative]_vars

(***************************************************************************)
(* Properties of the clustering                                            *)
(***************************************************************************)
\* the member sets of a connections dictionary
GroupSets(connections) == {connections[i][2] : i \in DOMAIN connections}

\* the dictionary d with its entries in the order p
Reordered(d, p) == [i \in DOMAIN d |-> d[p[i]]]

\* C1: the membership map returned by generate_shared_opportunity_nodes has
\* no two distinct clusters of which one's member set is a subset of the
\* other's.
C1_NoClusterIsSubset ==
    cl_done =>
      \A i, j \in DOMAIN cl_out.connections :
         i # j => ~(cl_out.connections[i][2] \subseteq cl_out.connections[j][2])

C1_Witness ==
    /\ cl_done
    /\ Len(cl_out.connections) >= 2
    /\ \E i, j \in DOMAIN cl_out.connections :
          i # j /\ cl_out.connections[i][2] \cap cl_out.connections[j][2] # {}

\* C2: for every insertion order of the same mapping the call returns the
\* same set of member sets.
C2_OrderIndependent ==
    cl_done =>
      \A p \in Permutations(DOMAIN cl_pe) :
         GroupSets(generate_shared_opportunity_nodes(
                      Reordered(cl_pe, p), cl_threshold).connections)
           = GroupSets(cl_out.connections)

C2_Witness ==
    /\ cl_done
    /\ Len(cl_pe) = 3
    /\ Len(cl_out.connections) = 2

\* the three documents with similarities (A,B) = 0.4, (B,C) = 0.4 and
\* (A,C) = 0.1, clustered at 0.35
ChainScenario ==
    /\ cl_threshold = 35
    /\ Len(cl_pe) = 3
    /\ \A k \in 1..3 : k \in Keys(cl_pe) /\ Get(cl_pe, k) = EmbPool[k]

\* C3: the returned clusters are exactly the two-element groups of documents
\* whose similarity is at least the threshold; in the chain scenario they
\* are {A,B} and {B,C}, and {A,B,C} is not among them.
C3_ExactlyTheSimilarPairs ==
    cl_done =>
      /\ GroupSets(cl_out.connections) =
            {{a, b} : <<a, b>> \in
                {q \in Keys(cl_pe) \X Keys(cl_pe) :
                    /\ q[1] # q[2]
                    /\ SimLE(Thr(cl_threshold),
                             cosine_similarity(Get(cl_pe, q[1]), Get(cl_pe, q[2])))}}
      /\ Len(cl_out.connections) = Cardinality(GroupSets(cl_out.connections))
      /\ ChainScenario =>
            /\ GroupSets(cl_out.connections) = {{1, 2}, {2, 3}}
            /\ Len(cl_out.nodes) = 2

C3_Witness == cl_done /\ ChainScenario

(***************************************************************************)
(* Properties of the handler                                               *)
(***************************************************************************)
Min(a, b) == IF a < b THEN a ELSE b

SimEq(x, y) == SimLE(x, y) /\ SimLE(y, x)

\* the documents the loop of line 185 has gone through
Attached == IF pc = "idle" THEN {} ELSE {text_data[k][1] : k \in 1..(di - 1)}

\* the taxonomy nodes a document node is linked to
SdgNeighbours(G, f) == Adj(G, PatentId(f)) \cap NodesOfType(G, "sdg")

\* the SDG ids of the rows of file f, in the order of the rows
SdgColumn(rows, f) ==
    LET own == SelectSeq(rows, LAMBDA r : r.file = f)
    IN  [j \in DOMAIN own |-> own[j].sdg]

Distinct(seq) == \A i, j \in DOMAIN seq : i # j => seq[i] # seq[j]

\* C4 as claimed: after the linking pass two distinct documents are linked
\* if and only if their similarity is at least 0.75, the similarity 0.75
\* included, and the weight of the edge is the similarity.
C4_LinkedIffAtLeastThreshold ==
    pc = "cluster" =>
      \A i, j \in DOMAIN patent_embeddings :
         i # j =>
           LET u == PatentId(patent_embeddings[i][1])
               v == PatentId(patent_embeddings[j][1])
               sim == cosine_similarity(patent_embeddings[i][2],
                                        patent_embeddings[j][2])
           IN  /\ HasEdge(full_G, u, v) <=> SimLE(Thr(SimilarityThreshold), sim)
               /\ HasEdge(full_G, u, v) => full_G.edges[{u, v}] = sim

\* C5: every document the attachment loop has gone through has
\* min(top_k, taxonomy_count) taxonomy edges, and the taxonomy ids of its
\* edges and of its rows of the results table are pairwise distinct; the
\* same holds of the graph and the table of a finished run.
C5_TopKEdgesPerDocument ==
    /\ \A f \in Attached :
          /\ Cardinality(SdgNeighbours(full_G, f)) = Min(TopK, sdgs)
          /\ Len(Get(batch_table_data, f)) = Min(TopK, sdgs)
          /\ Distinct(SdgColumn(Get(batch_table_data, f), f))
    /\ outcome = "done" =>
          \A f \in Keys(text_data) :
             /\ Cardinality(SdgNeighbours(graph[1], f)) = Min(TopK, sdgs)
             /\ Len(SdgColumn(results_df[1], f)) = Min(TopK, sdgs)
             /\ Distinct(SdgColumn(results_df[1], f))

C5_Witness ==
    /\ ready
    /\ Len(text_data) >= 2
    /\ sdgs > TopK

\* the similarities of document f to the taxonomy
SimsOf(f) == SdgSims(Encode(Get(text_data, f)), sdgs)

\* the ranking recorded for f: the SDG indices of its rows
Ranking(f) == SdgColumn(Get(batch_table_data, f), f)

\* the ranking of f is by similarity, descending, and no entry left out has
\* a larger similarity than one that was taken
RankedByScore(f) ==
    LET sims == SimsOf(f)
        top == Ranking(f)
    IN  /\ \A j, k \in DOMAIN top : j < k => SimLE(sims[top[k]], sims[top[j]])
        /\ \A u \in DOMAIN sims \ Range(top) :
              \A j \in DOMAIN top : SimLE(sims[u], sims[top[j]])

\* of two entries of equal similarity the earlier one of the taxonomy list
\* is ranked, and taken, before the later one
TiesByListOrder(f) ==
    LET sims == SimsOf(f)
        top == Ranking(f)
    IN  /\ \A j, k \in DOMAIN top :
              j < k /\ SimEq(sims[top[j]], sims[top[k]]) => top[j] < top[k]
        /\ \A u \in DOMAIN sims \ Range(top) :
              \A j \in DOMAIN top : SimEq(sims[u], sims[top[j]]) => top[j] < u

\* C6 as claimed: the entries chosen for a document are the K of highest
\* similarity in descending order, and of two entries of equal similarity
\* the earlier one of the taxonomy list comes first.
C6_TopKWithTiesByListOrder ==
    \A f \in Attached : RankedByScore(f) /\ TiesByListOrder(f)

\* C6 as amended: the entries chosen for a document are K entries of highest
\* similarity in descending order; the order among equal similarities is
\* not determined.
C6_TopKByScore == \A f \in Attached : RankedByScore(f)

C6_Witness ==
    /\ sdgs > TopK
    /\ \E f \in Attached :
          \E a, b \in DOMAIN SimsOf(f) :
             /\ a < b
             /\ SimEq(SimsOf(f)[a], SimsOf(f)[b])
             /\ b \in Range(Ranking(f))
             /\ a \notin Range(Ranking(f))

\* C7: with a non-empty membership map the flagship documents are the
\* members of a cluster of maximum size, the one of lowest cluster id among
\* those; with an empty map they are all documents of the batch.
C7_FlagshipSelection ==
    pc = "finish" =>
      LET selected == Range(patents_for_startup)
      IN  /\ Len(patents_for_startup) = Cardinality(selected)
          /\ IF opp_links # <<>>
             THEN \E i \in DOMAIN opp_links :
                    /\ selected = opp_links[i][2]
                    /\ \A j \in DOMAIN opp_links :
                          /\ Cardinality(opp_links[j][2]) <= Cardinality(opp_links[i][2])
                          /\ Cardinality(opp_links[j][2]) = Cardinality(opp_links[i][2])
                                => opp_links[i][1] <= opp_links[j][1]
             ELSE selected = Keys(text_data)

C7_Witness ==
    /\ pc = "finish"
    /\ Len(opp_links) >= 2

\* C8 as claimed: describe_opportunity([]) and describe_startup([]) return,
\* and what they return has a fallback name and the generic description.
C8_EmptyListGivesFallback ==
    nar_done /\ nar_texts = <<>> =>
      /\ ~nar_out.raised
      /\ nar_out.name # <<>>
      /\ nar_out.description.template = 0

AddedNodes(G) ==
    NodesOfType(G, "patent") \cup NodesOfType(G, "opportunity")
       \cup NodesOfType(G, "startup")

\* no document, cluster or flagship node has been added with an empty
\* taxonomy
NothingAddedOnEmptyTaxonomy ==
    sdgs = 0 =>
      /\ AddedNodes(full_G) = {}
      /\ graph = <<>>
      /\ ~ready

\* C9 as claimed: with an empty taxonomy list build_sdg_graph does not hand
\* back a graph the handler goes on with, and no document, cluster or
\* flagship node is ever added.
C9_FailsFastOnEmptyTaxonomy ==
    /\ sdgs = 0 => pc = "idle"
    /\ NothingAddedOnEmptyTaxonomy

\* C9 as amended: with an empty taxonomy list build_sdg_graph returns the
\* empty graph without an error; the run goes on to the first document,
\* where the similarity computation raises, and no document, cluster or
\* flagship node is ever added.
C9_FailsAtFirstDocument ==
    /\ sdgs = 0 =>
          /\ pc \in {"idle", "docs"}
          /\ pc = "docs" => full_G = EmptyGraph /\ di = 1
          /\ outcome # "done"
    /\ NothingAddedOnEmptyTaxonomy

C9_Witness == sdgs = 0 /\ outcome = "raised" /\ text_data # <<>>

\* C10: a request whose batch is empty stops with the warning and not with
\* an exception, and builds no graph: every run that goes past the check of
\* line 171, and so every run that raises or finishes, has a batch that is
\* not empty.
C10_EmptyBatchAddsNothing ==
    /\ message = "no_text" =>
          /\ outcome = "stopped"
          /\ pc = "idle"
          /\ full_G = EmptyGraph
    /\ (pc # "idle" \/ outcome \in {"raised", "done"}) => text_data # <<>>

C10_Witness == message = "no_text" /\ ~ready /\ graph = <<>>

NodeTypes == {"sdg", "patent", "opportunity", "startup"}

\* every end point of an edge of G is a node of G, every node of G has one
\* of the four types, and no call of add_edge had to create a node
EndpointsExplicit(G) ==
    /\ \A e \in DOMAIN G.edges : e \subseteq DOMAIN G.nodes
    /\ \A x \in DOMAIN G.nodes : G.nodes[x].type \in NodeTypes
    /\ G.implicit = {}

\* C11: in a run with a non-empty taxonomy, at every add_edge call both end
\* points are nodes that were added explicitly with a type; no edge
\* insertion creates a node.  The same holds of the stored graph.
C11_EdgeEndpointsExplicit ==
    sdgs > 0 =>
      /\ EndpointsExplicit(full_G)
      /\ graph # <<>> => EndpointsExplicit(graph[1])

\* a finished graph with an edge of each kind: document-taxonomy,
\* document-document, document-cluster and document-flagship
C11_Witness ==
    /\ ready
    /\ sdgs > 0
    /\ \E e \in DOMAIN graph[1].edges : e \subseteq NodesOfType(graph[1], "patent")
                                           /\ Cardinality(e) = 2
    /\ \E e \in DOMAIN graph[1].edges : e \cap NodesOfType(graph[1], "opportunity") # {}
    /\ \E e \in DOMAIN graph[1].edges : e \cap NodesOfType(graph[1], "startup") # {}
    /\ \E e \in DOMAIN graph[1].edges : e \cap NodesOfType(graph[1], "sdg") # {}

\* the document nodes of the documents of S
MemberNodes(S) == {PatentId(d) : d \in S}

\* the document nodes adjacent to node u
DocNeighbours(G, u) == Adj(G, u) \cap NodesOfType(G, "patent")

\* node u of G is linked to exactly the document nodes of S, each with
\* weight 1.0
MembershipEdges(G, u, S) ==
    /\ u \in DOMAIN G.nodes
    /\ DocNeighbours(G, u) = MemberNodes(S)
    /\ \A v \in MemberNodes(S) : G.edges[{u, v}] = One

\* C12: at the end of a run every cluster node is adjacent to exactly the
\* document nodes of its members in the membership map, the flagship node
\* to exactly those of the flagship documents, and each of these edges has
\* weight 1.0; the same holds of the graph a finished run has stored.
C12_MembershipAdjacency ==
    /\ pc = "finish" =>
          /\ \A i \in DOMAIN opp_links :
                MembershipEdges(full_G, OpportunityId(opp_links[i][1]),
                                opp_links[i][2])
          /\ MembershipEdges(full_G, StartupId, Range(patents_for_startup))
    /\ outcome = "done" =>
          /\ \A i \in DOMAIN opp_links :
                MembershipEdges(graph[1], OpportunityId(opp_links[i][1]),
                                opp_links[i][2])
          /\ MembershipEdges(graph[1], StartupId,
                             PatentsForStartup(opp_links, text_data))

C12_Witness ==
    /\ outcome = "done"
    /\ Len(opp_links) >= 2
    /\ StartupId \in DOMAIN graph[1].nodes
    /\ Len(text_data) > Cardinality(DocNeighbours(graph[1], StartupId))

\* the groups of the pairs of pe at or above the threshold, in the order
\* in which the loop over the pairs comes to them
DiscoveryOrder(pe, threshold) ==
    LET hits == SelectSeq(combinations(Len(pe)),
                          LAMBDA q : SimLE(Thr(threshold),
                                           cosine_similarity(pe[q[1]][2], pe[q[2]][2])))
    IN  [k \in DOMAIN hits |-> {pe[hits[k][1]][1], pe[hits[k][2]][1]}]

\* the cluster nodes of the graph are those of the first n clusters, each
\* linked to the members its id has in the membership map
ClusterNodesAdded(G, n) ==
    /\ NodesOfType(G, "opportunity") = {OpportunityId(k) : k \in 1..n}
    /\ \A k \in 1..n : MemberNodes(Get(opp_links, k)) \subseteq Adj(G, OpportunityId(k))

\* C13: the k-th accepted group gets cluster id k: the ids are 1..n in
\* discovery order, the membership map has one key per returned cluster
\* node, and the id under which the handler adds the k-th cluster to the
\* graph is its key in the membership map.
C13_ClusterIdsInDiscoveryOrder ==
    pc \in {"opp", "finish"} =>
      LET found == DiscoveryOrder(patent_embeddings, OpportunityThreshold)
      IN  /\ Len(opp_nodes) = Len(found)
          /\ Len(opp_links) = Len(found)
          /\ \A k \in DOMAIN found :
                /\ opp_links[k] = <<k, found[k]>>
                /\ opp_nodes[k].id = k
          /\ ClusterNodesAdded(full_G, oi - 1)
          /\ pc = "finish" => oi - 1 = Len(found)

C13_Witness ==
    /\ pc = "opp"
    /\ Len(opp_nodes) >= 3
    /\ oi > Len(opp_nodes)

\* the nodes of a type that a step adds to the graph of the run
New(type) == NodesOfType(full_G', type) \ NodesOfType(full_G, type)

\* a step that adds a node of one kind finds the kinds before it complete
\* and leaves the kinds after it without a node
CreationOrdered ==
    /\ New("sdg") # {} =>
          /\ NodesOfType(full_G', "patent") = {}
          /\ NodesOfType(full_G', "opportunity") = {}
          /\ NodesOfType(full_G', "startup") = {}
    /\ New("patent") # {} =>
          /\ New("sdg") = {}
          /\ NodesOfType(full_G, "sdg") = {SdgId(i) : i \in 1..sdgs}
          /\ NodesOfType(full_G', "opportunity") = {}
          /\ NodesOfType(full_G', "startup") = {}
    /\ New("opportunity") # {} =>
          /\ New("sdg") = {} /\ New("patent") = {}
          /\ NodesOfType(full_G, "patent") = MemberNodes(Keys(text_data))
          /\ NodesOfType(full_G', "startup") = {}
    /\ New("startup") # {} =>
          /\ New("sdg") = {} /\ New("patent") = {} /\ New("opportunity") = {}
          /\ NodesOfType(full_G, "patent") = MemberNodes(Keys(text_data))
          /\ NodesOfType(full_G, "opportunity") =
                {OpportunityId(opp_links[k][1]) : k \in DOMAIN opp_links}

\* the graph at the end of the run, and the one it stores, have one
\* flagship node
OneFlagship ==
    /\ pc = "finish" => NodesOfType(full_G, "startup") = {StartupId}
    /\ ready => NodesOfType(graph[1], "startup") = {StartupId}

\* C14: within a run every taxonomy node is added before any document
\* node, every document node before any cluster node, and the flagship
\* node after all cluster nodes; the finished graph has exactly one
\* flagship node.
C14_NodeCreationOrdered == [][CreationOrdered]_vars /\ []OneFlagship

C14_Witness ==
    /\ pc = "finish"
    /\ Cardinality(NodesOfType(full_G, "sdg")) >= 2
    /\ Cardinality(NodesOfType(full_G, "patent")) >= 2
    /\ Cardinality(NodesOfType(full_G, "opportunity")) >= 2
    /\ StartupId \in NodesOfType(full_G, "startup")

\* C15: when the membership map returned by the clustering is not empty,
\* every cluster has exactly two members, so the flagship documents are
\* exactly two and are the members of the first cluster, OPPORTUNITY_1,
\* however many clusters there are.
C15_FlagshipIsFirstCluster ==
    /\ pc \in {"opp", "finish"} =>
          \A i \in DOMAIN opp_links : Cardinality(opp_links[i][2]) = 2
    /\ (pc = "finish" /\ opp_links # <<>>) =>
          /\ Len(patents_for_startup) = 2
          /\ opp_links[1][1] = 1
          /\ Range(patents_for_startup) = opp_links[1][2]
          /\ Adj(full_G, StartupId) = MemberNodes(Get(opp_links, 1))

C15_Witness ==
    /\ pc = "finish"
    /\ Len(opp_links) = 3
    /\ Len(text_data) = 3
    /\ Len(patents_for_startup) = 2

\* patent_embeddings as the loop of line 185 builds it from a text_data
EmbeddingsOf(td) == [i \in DOMAIN td |-> <<td[i][1], Encode(td[i][2])>>]

\* the stored text_data, opp_links, startup_description, startup_node,
\* graph and results_df are those of one run: the run over text_data
SessionOfOneRun ==
    /\ graph # <<>> /\ results_df # <<>>
    /\ startup_node # <<>> /\ startup_description # <<>>
    /\ NodesOfType(graph[1], "patent") = MemberNodes(Keys(text_data))
    /\ {results_df[1][r].file : r \in DOMAIN results_df[1]} = Keys(text_data)
    /\ opp_links = generate_shared_opportunity_nodes(
                       EmbeddingsOf(text_data), OpportunityThreshold).connections
    /\ NodesOfType(graph[1], "opportunity") =
          {OpportunityId(opp_links[k][1]) : k \in DOMAIN opp_links}
    /\ \A k \in DOMAIN opp_links :
          MembershipEdges(graph[1], OpportunityId(opp_links[k][1]), opp_links[k][2])
    /\ MembershipEdges(graph[1], StartupId, PatentsForStartup(opp_links, text_data))
    /\ startup_node[1].name = startup_description[1].name
    /\ \E order \in Orders(PatentsForStartup(opp_links, text_data)) :
          startup_description[1] \in describe_startup(TextsOf(text_data, order))

\* C16 as claimed: whenever the session is ready and no run is under way,
\* what it stores was produced by one and the same run, also after a later
\* run that ended partway.
C16_ReadySessionFromOneRun == (ready /\ pc = "idle") => SessionOfOneRun

\* a step of the handler that ends at one of the st.stop() of lines 147-173
Rejected == pc = "idle" /\ outcome' = "stopped"

\* C17: a request rejected by the validation (duplicate file names, not
\* exactly one input type, a text that is too short, no text extracted)
\* leaves ready, text_data, graph, results_df, opp_links and startup_node
\* as they were, and after Reset Batch and its rerun the session is the
\* initial one, with ready false.
C17_RejectedKeepsSessionResetClears ==
    /\ [][Rejected => UNCHANGED <<ready, text_data, graph, results_df,
                                  opp_links, startup_node>>]_vars
    /\ [](outcome = "reset" => Fresh)

\* a request was rejected in a session that held the results of a run
C17_Witness ==
    /\ outcome = "stopped"
    /\ message \in {"duplicates", "input_type", "too_short", "no_text"}
    /\ ready
    /\ graph # <<>>

====
